---- MODULE Spec2Model ----
(***************************************************************************)
(* django-moderation, moderation/admin.py: the admin surface of the        *)
(* moderation workflow.  The admin handlers (bulk actions, the two         *)
(* change_view overrides, send_message, get_moderation_message, queryset)  *)
(* are translated from admin.py.  ModeratedObject.approve / reject /       *)
(* set_as_pending (moderation/models.py), the policy lookup                *)
(* (moderation/__init__.py) and get_changes_between_models                 *)
(* (moderation/diff.py) are not part of the excerpt and are modelled from  *)
(* the design document, sections 4.1 - 4.3.                                *)
(***************************************************************************)
EXTENDS Integers, Sequences, FiniteSets, TLC

VARIABLES
    registry,   \* moderation._registered_models: content type -> policy
    live,       \* the domain objects as stored: pk -> field values
    rows,       \* the ModeratedObject table: pk -> row
    clock,      \* datetime.now(), a counter
    request,    \* the request being answered (view and inputs)
    response,   \* how the handler ended
    messages,   \* what the handler added to the request's messages
    pc,         \* concurrent requests: where each one is
    loaded,     \* concurrent requests: the row instance each one holds in memory
    journal     \* every (status, moderator, date) a transition saved, by date

vars == <<registry, live, rows, clock, request, response, messages, pc, loaded, journal>>

----------------------------------------------------------------------------
(* Bounds of the model. *)

MaxClock == 2       \* transitions that stamp a date
MaxBatch == 2       \* rows selected for one bulk action
NumRequests == 2    \* concurrent requests

Objects == {1, 2}   \* the domain objects' primary keys
Users == {"alice", "bob"}
Reasons == {"", "bad"}
ContentTypes == {"Article", "Comment"}
FieldOrder == <<"title", "body">>          \* the declared field order
FieldNames == {FieldOrder[i] : i \in 1..Len(FieldOrder)}
Values == {"A", "B"}
Snapshots == [FieldNames -> Values]
Requests == 1..NumRequests

None == "None"      \* Python's None where a user or a status is expected
NoDate == <<>>      \* moderation_date IS NULL; a date t is <<t>>

MODERATION_STATUS_PENDING == "Pending"
MODERATION_STATUS_REJECTED == "Rejected"
MODERATION_STATUS_APPROVED == "Approved"
MODERATION_READY_STATE == "Normal"
MODERATION_DRAFT_STATE == "Draft"

Statuses == {MODERATION_STATUS_PENDING, MODERATION_STATUS_REJECTED,
             MODERATION_STATUS_APPROVED}

ContentType(pk) == IF pk % 2 = 1 THEN "Article" ELSE "Comment"

----------------------------------------------------------------------------
(* The data model (design document, section 3). *)

NoRow == [exists |-> FALSE]

\* A ModeratedObject row as created for a saved domain object: Pending, not decided.
NewRow(state, changed) ==
    [exists |-> TRUE,
     moderation_status |-> MODERATION_STATUS_PENDING,
     moderation_state |-> state,
     moderated_by |-> None,
     moderation_reason |-> "",
     moderation_date |-> NoDate,
     changed_object |-> changed]

Unregistered == [registered |-> FALSE]

Policy(vur, exclude) ==
    [registered |-> TRUE, visible_until_rejected |-> vur, fields_exclude |-> exclude]

\* moderation.get_moderator(model_class): the policy, or RegistrationError.
RegistrationError == "RegistrationError"
DoesNotExist == "DoesNotExist"
ValidationError == "ValidationError"

get_moderator(reg, ctype) ==
    IF reg[ctype].registered
    THEN [error |-> None, moderator |-> reg[ctype]]
    ELSE [error |-> RegistrationError]

----------------------------------------------------------------------------
(* The state machine (design document, section 4.1).  Each operation sets   *)
(* the fields on the row instance and saves it: one write of the whole row. *)

ApprovedMessage == "Object has been approved"
RejectedMessage == "Object has been rejected"

\* approve(actor, reason=""): status, moderator, date and reason together.
approve(row, moderated_by, reason, now) ==
    [error |-> None,
     message |-> ApprovedMessage,
     row |-> [row EXCEPT !.moderation_status = MODERATION_STATUS_APPROVED,
                         !.moderated_by = moderated_by,
                         !.moderation_date = <<now>>,
                         !.moderation_reason = reason]]

\* reject(actor, reason): ValidationError on an empty reason, nothing saved.
reject(row, moderated_by, reason, now) ==
    IF reason = ""
    THEN [error |-> ValidationError, row |-> row]
    ELSE [error |-> None,
          message |-> RejectedMessage,
          row |-> [row EXCEPT !.moderation_status = MODERATION_STATUS_REJECTED,
                              !.moderated_by = moderated_by,
                              !.moderation_date = <<now>>,
                              !.moderation_reason = reason]]

\* setPending(actor): status back to Pending, the date cleared.
set_as_pending(row, moderated_by) ==
    [row EXCEPT !.moderation_status = MODERATION_STATUS_PENDING,
                !.moderation_date = NoDate]

----------------------------------------------------------------------------
(* The change-set computer (design document, section 4.2): the fields, in   *)
(* declared order, that are not excluded and whose values differ.           *)

RECURSIVE changes_from(_, _, _, _)
changes_from(i, old, new, excludes) ==
    IF i > Len(FieldOrder) THEN <<>>
    ELSE LET f == FieldOrder[i]
             rest == changes_from(i + 1, old, new, excludes)
         IN IF f \notin excludes /\ old[f] # new[f]
            THEN <<[field |-> f, change |-> <<old[f], new[f]>>]>> \o rest
            ELSE rest

get_changes_between_models(old, new, excludes) == changes_from(1, old, new, excludes)

----------------------------------------------------------------------------
(* ModerationAdmin: the status message shown on a moderated model's page.   *)

MsgPendingVisible ==
    "Object is viewable on site, it will be removed if moderator rejects it"
MsgPendingHidden ==
    "Object is not viewable on site, it will be visible if moderator accepts it"
MsgRejected == "Object has been rejected by moderator, reason: "
MsgApproved == "Object has been approved by moderator and is visible on site"
MsgNotRegistered == "This object is not registered with the moderation system."

get_moderation_message(moderation_status, reason, visible_until_rejected) ==
    IF moderation_status = MODERATION_STATUS_PENDING
    THEN IF visible_until_rejected THEN MsgPendingVisible ELSE MsgPendingHidden
    ELSE IF moderation_status = MODERATION_STATUS_REJECTED
    THEN MsgRejected \o reason
    ELSE IF moderation_status = MODERATION_STATUS_APPROVED
    THEN MsgApproved
    ELSE IF moderation_status = None
    THEN MsgNotRegistered
    ELSE None

\* How a handler ends.
Raised(error) == [kind |-> "error", error |-> error]
NoResponse == [kind |-> "none"]

\* send_message: only ModeratedObject.DoesNotExist is caught.
send_message(reg, db, object_id) ==
    IF ~db[object_id].exists
    THEN [error |-> None,
          messages |-> <<get_moderation_message(None, None, FALSE)>>]
    ELSE LET moderated_obj == db[object_id]
             lookup == get_moderator(reg, ContentType(object_id))
         IN IF lookup.error # None
            THEN [error |-> lookup.error, messages |-> <<>>]
            ELSE [error |-> None,
                  messages |-> <<get_moderation_message(
                                    moderated_obj.moderation_status,
                                    moderated_obj.moderation_reason,
                                    lookup.moderator.visible_until_rejected)>>]

\* ModerationAdmin.change_view: the message, then the framework's change page.
ModerationAdmin_change_view(reg, db, admin_integration_enabled, object_id) ==
    LET sent == IF admin_integration_enabled
                THEN send_message(reg, db, object_id)
                ELSE [error |-> None, messages |-> <<>>]
    IN [messages |-> sent.messages,
        response |-> IF sent.error # None THEN Raised(sent.error)
                     ELSE [kind |-> "change_page"]]

----------------------------------------------------------------------------
(* The bulk actions.  Each result: the table, the clock, the messages added *)
(* and the error that ended the loop (None when it ran to its end).         *)

\* approve called with no moderated_by: the moderator defaults to None.
approve_one_without_user(db, now, user, obj, instance) ==
    LET done == approve(instance, None, "", now + 1)
    IN [rows |-> [db EXCEPT ![obj] = done.row], clock |-> now + 1,
        messages |-> <<done.message>>, error |-> None]

\* One iteration of approve_objects, on the instance the queryset yielded.
approve_one(db, now, user, obj, instance) ==
    LET done == approve(instance, user, "", now + 1)
    IN [rows |-> [db EXCEPT ![obj] = done.row], clock |-> now + 1,
        messages |-> <<done.message>>, error |-> None]

\* One iteration of reject_objects: reject is called without a reason.
reject_one(db, now, user, obj, instance) ==
    LET done == reject(instance, user, "", now + 1)
    IN IF done.error # None
       THEN [rows |-> db, clock |-> now, messages |-> <<>>, error |-> done.error]
       ELSE [rows |-> [db EXCEPT ![obj] = done.row], clock |-> now + 1,
             messages |-> <<done.message>>, error |-> None]

RECURSIVE approve_loop(_, _, _, _, _)
approve_loop(queryset, user, db, now, msgs) ==
    IF queryset = <<>>
    THEN [rows |-> db, clock |-> now, messages |-> msgs, error |-> None]
    ELSE LET obj == Head(queryset)
             done == approve_one(db, now, user, obj, db[obj])
         IN approve_loop(Tail(queryset), user, done.rows, done.clock,
                         msgs \o done.messages)

approve_objects(db, now, user, queryset) == approve_loop(queryset, user, db, now, <<>>)

RECURSIVE reject_loop(_, _, _, _, _)
reject_loop(queryset, user, db, now, msgs) ==
    IF queryset = <<>>
    THEN [rows |-> db, clock |-> now, messages |-> msgs, error |-> None]
    ELSE LET obj == Head(queryset)
             done == reject_one(db, now, user, obj, db[obj])
         IN IF done.error # None
            THEN [rows |-> db, clock |-> now, messages |-> msgs, error |-> done.error]
            ELSE reject_loop(Tail(queryset), user, done.rows, done.clock,
                             msgs \o done.messages)

reject_objects(db, now, user, queryset) == reject_loop(queryset, user, db, now, <<>>)

RECURSIVE pending_loop(_, _, _)
pending_loop(queryset, user, db) ==
    IF queryset = <<>> THEN db
    ELSE LET obj == Head(queryset)
         IN pending_loop(Tail(queryset), user,
                         [db EXCEPT ![obj] = set_as_pending(db[obj], user)])

\* The commented-out queryset.update(moderation_status=...): the status alone.
RECURSIVE pending_update_loop(_, _)
pending_update_loop(queryset, db) ==
    IF queryset = <<>> THEN db
    ELSE pending_update_loop(Tail(queryset),
            [db EXCEPT ![Head(queryset)].moderation_status = MODERATION_STATUS_PENDING])

set_objects_as_pending_by_update(db, now, user, queryset) ==
    [rows |-> pending_update_loop(queryset, db), clock |-> now,
     messages |-> <<>>, error |-> None]

set_objects_as_pending(db, now, user, queryset) ==
    [rows |-> pending_loop(queryset, user, db), clock |-> now,
     messages |-> <<>>, error |-> None]

----------------------------------------------------------------------------
(* ModeratedObjectAdmin. *)

\* queryset returning after its first exclude: drafts stay listed.
queryset_with_drafts(db) ==
    {pk \in Objects : db[pk].exists
                      /\ db[pk].moderation_status # MODERATION_STATUS_APPROVED}

\* queryset: the rows of the moderators' listing.
queryset(db) ==
    LET qs == {pk \in Objects : db[pk].exists}
        not_approved ==
            {pk \in qs : db[pk].moderation_status # MODERATION_STATUS_APPROVED}
    IN {pk \in not_approved : db[pk].moderation_state # MODERATION_DRAFT_STATE}

\* request.POST: empty (a GET), or the form's field and the buttons pressed.
EmptyPost == [empty |-> TRUE]
Post(keys, reason) == [empty |-> FALSE, keys |-> keys, moderation_reason |-> reason]
Posts == {EmptyPost} \cup {Post(k, r) : k \in SUBSET {"approve", "reject"}, r \in Reasons}

response_change(has_change_permission) ==
    [kind |-> "redirect",
     url |-> IF has_change_permission THEN "../" ELSE "../../../"]

\* The sides as for a policy that is not visible-until-rejected, always.
diff_sides_never_swapped(moderator, changed_object, stored_object) ==
    [old_object |-> stored_object, new_object |-> changed_object]

\* The two sides of the diff shown to the moderator.
diff_sides(moderator, changed_object, stored_object) ==
    IF moderator.visible_until_rejected
    THEN [old_object |-> changed_object, new_object |-> stored_object]
    ELSE [old_object |-> stored_object, new_object |-> changed_object]

\* The two tests of the POST branch in the other order.
post_action_reject_first(POST, is_valid) ==
    IF ~POST.empty /\ is_valid
    THEN IF "reject" \in POST.keys THEN "reject"
         ELSE IF "approve" \in POST.keys THEN "approve"
         ELSE "none"
    ELSE "none"

\* The POST branch: which transition the request asks for, if any.
post_action(POST, is_valid) ==
    IF ~POST.empty /\ is_valid
    THEN IF "approve" \in POST.keys THEN "approve"
         ELSE IF "reject" \in POST.keys THEN "reject"
         ELSE "none"
    ELSE "none"

\* approve called as the bulk action calls it: the form's reason not passed.
approve_branch_without_reason(db, now, user, object_id, moderated_object, reason, has_change_permission) ==
    LET done == approve(moderated_object, user, "", now + 1)
    IN [rows |-> [db EXCEPT ![object_id] = done.row], clock |-> now + 1,
        messages |-> <<done.message>>,
        response |-> response_change(has_change_permission)]

\* 'approve' in request.POST: approve the instance, add the message, redirect.
approve_branch(db, now, user, object_id, moderated_object, reason, has_change_permission) ==
    LET done == approve(moderated_object, user, reason, now + 1)
    IN [rows |-> [db EXCEPT ![object_id] = done.row], clock |-> now + 1,
        messages |-> <<done.message>>,
        response |-> response_change(has_change_permission)]

\* reject called as the bulk action calls it: the form's reason not passed.
reject_branch_without_reason(db, now, user, object_id, moderated_object, reason, page) ==
    LET done == reject(moderated_object, user, "", now + 1)
    IN IF done.error # None
       THEN [rows |-> db, clock |-> now, messages |-> <<>>,
             response |-> Raised(done.error)]
       ELSE [rows |-> [db EXCEPT ![object_id] = done.row], clock |-> now + 1,
             messages |-> <<done.message>>, response |-> page]

\* 'reject' in request.POST: reject the instance, add the message, go on to the page.
reject_branch(db, now, user, object_id, moderated_object, reason, page) ==
    LET done == reject(moderated_object, user, reason, now + 1)
    IN IF done.error # None
       THEN [rows |-> db, clock |-> now, messages |-> <<>>,
             response |-> Raised(done.error)]
       ELSE [rows |-> [db EXCEPT ![object_id] = done.row], clock |-> now + 1,
             messages |-> <<done.message>>, response |-> page]

change_view(reg, lv, db, now, user, object_id, POST, is_valid, has_change_permission) ==
    LET unchanged(resp) ==
            [rows |-> db, clock |-> now, messages |-> <<>>, response |-> resp]
    IN
    IF ~db[object_id].exists THEN unchanged(Raised(DoesNotExist))
    ELSE
    LET moderated_object == db[object_id]
        changed_object == moderated_object.changed_object
        lookup == get_moderator(reg, ContentType(object_id))
    IN
    IF lookup.error # None THEN unchanged(Raised(lookup.error))
    ELSE
    LET moderator == lookup.moderator
        sides == diff_sides(moderator, changed_object, lv[object_id])
        changes == get_changes_between_models(sides.old_object, sides.new_object,
                                              moderator.fields_exclude)
        page == [kind |-> "change_page", changes |-> changes,
                 old_object |-> sides.old_object, new_object |-> sides.new_object]
        branch == post_action(POST, is_valid)
    IN
    IF branch = "approve"
    THEN approve_branch(db, now, user, object_id, moderated_object,
                        POST.moderation_reason, has_change_permission)
    ELSE IF branch = "reject"
    THEN reject_branch(db, now, user, object_id, moderated_object,
                       POST.moderation_reason, page)
    ELSE unchanged(page)

----------------------------------------------------------------------------
(* The requests of one admin site, answered one at a time. *)

\* A bulk action's selection: distinct rows of the table, in the order given.
Selections(db) ==
    {qs \in UNION {[1..n -> {pk \in Objects : db[pk].exists}] : n \in 1..MaxBatch} :
        \A i, j \in 1..Len(qs) : i # j => qs[i] # qs[j]}

StoredObject == [f \in FieldNames |-> "A"]
EditedObject == [f \in FieldNames |-> IF f = "title" THEN "B" ELSE "A"]

Idle == [r \in Requests |-> "idle"]
NothingLoaded == [r \in Requests |-> [todo |-> <<>>]]

\* The admin site of a project whose models are registered: the rows as
\* created for saved objects, possibly a draft, possibly an object that was
\* never moderated.
Init ==
    /\ registry = [t \in ContentTypes |-> Policy(FALSE, {})]
    /\ live = [pk \in Objects |-> StoredObject]
    /\ rows \in {db \in [Objects -> {NoRow} \cup
                            {NewRow(st, EditedObject) :
                                st \in {MODERATION_READY_STATE, MODERATION_DRAFT_STATE}}] :
                    /\ db[1].exists
                    /\ db[2].exists => db[2].moderation_state = MODERATION_READY_STATE}
    /\ clock = 0
    /\ request = [view |-> "none"]
    /\ response = NoResponse
    /\ messages = <<>>
    /\ pc = Idle
    /\ loaded = NothingLoaded
    /\ journal = <<>>

\* A bulk action that raised ends in the framework's error page; what the
\* loop saved before stays saved.
BulkResponse(result) ==
    IF result.error # None THEN Raised(result.error) ELSE [kind |-> "changelist"]

Bulk(name, result, user, qs) ==
    /\ rows' = result.rows
    /\ clock' = result.clock
    /\ messages' = result.messages
    /\ response' = BulkResponse(result)
    /\ request' = [view |-> name, user |-> user, queryset |-> qs]
    /\ UNCHANGED <<registry, live, pc, loaded, journal>>

ApproveObjects ==
    \E user \in Users, qs \in Selections(rows) :
        /\ clock + Len(qs) <= MaxClock
        /\ Bulk("approve_objects", approve_objects(rows, clock, user, qs), user, qs)

RejectObjects ==
    \E user \in Users, qs \in Selections(rows) :
        /\ clock + Len(qs) <= MaxClock
        /\ Bulk("reject_objects", reject_objects(rows, clock, user, qs), user, qs)

SetObjectsAsPending ==
    \E user \in Users, qs \in Selections(rows) :
        Bulk("set_objects_as_pending",
             set_objects_as_pending(rows, clock, user, qs), user, qs)

View(user, object_id, POST, is_valid, has_change_permission) ==
    /\ LET result == change_view(registry, live, rows, clock, user, object_id,
                                 POST, is_valid, has_change_permission)
       IN /\ rows' = result.rows
          /\ clock' = result.clock
          /\ messages' = result.messages
          /\ response' = result.response
    /\ request' = [view |-> "change_view", user |-> user,
                   object_id |-> object_id, POST |-> POST, is_valid |-> is_valid]
    /\ UNCHANGED <<registry, live, pc, loaded, journal>>

\* ModeratedObjectAdmin.change_view, with or without a submitted form.
ChangeView ==
    \E user \in Users, object_id \in Objects, POST \in Posts,
       is_valid \in BOOLEAN, has_change_permission \in BOOLEAN :
        /\ clock < MaxClock
        /\ POST.empty => is_valid
        /\ post_action(POST, is_valid) # "approve" => has_change_permission
        /\ View(user, object_id, POST, is_valid, has_change_permission)

----------------------------------------------------------------------------
(* The pages alone: any policy, any pair of field values, rows decided or    *)
(* not, objects without a row, types without a policy.                       *)

Policies(excludes) ==
    {Unregistered} \cup {Policy(vur, ex) : vur \in BOOLEAN, ex \in excludes}

\* A row as the state machine leaves it after its first decision, or before.
RowsAfterAtMostOneDecision(changed) ==
    LET new == NewRow(MODERATION_READY_STATE, changed)
    IN {new, reject(new, "bob", "bad", 1).row}
       \cup {approve(new, "alice", r, 1).row : r \in Reasons}

InitViews ==
    /\ registry \in {reg \in [ContentTypes -> Policies(SUBSET FieldNames)] :
                        reg["Comment"] \in {Unregistered, Policy(FALSE, {})}}
    /\ live \in {lv \in [Objects -> Snapshots] : lv[2] = StoredObject}
    /\ rows \in {db \in [Objects -> {NoRow} \cup
                            UNION {RowsAfterAtMostOneDecision(c) : c \in Snapshots}] :
                    db[2] \in {NoRow, NewRow(MODERATION_READY_STATE, EditedObject)}}
    /\ clock = 1
    /\ request = [view |-> "none"]
    /\ response = NoResponse
    /\ messages = <<>>
    /\ pc = Idle
    /\ loaded = NothingLoaded
    /\ journal = <<>>

\* ModeratedObjectAdmin.change_view answering a GET.
ShowChangeView ==
    \E user \in Users, object_id \in Objects :
        View(user, object_id, EmptyPost, TRUE, TRUE)

\* ModerationAdmin.change_view of a domain object.
ModerationAdminChangeView ==
    \E admin_integration_enabled \in BOOLEAN, object_id \in Objects :
        /\ LET result == ModerationAdmin_change_view(registry, rows,
                                                     admin_integration_enabled, object_id)
           IN /\ messages' = result.messages
              /\ response' = result.response
        /\ request' = [view |-> "ModerationAdmin.change_view",
                       admin_integration_enabled |-> admin_integration_enabled,
                       object_id |-> object_id]
        /\ UNCHANGED <<registry, live, rows, clock, pc, loaded, journal>>

NextViews ==
    \/ ShowChangeView
    \/ ModerationAdminChangeView

ViewSpec == InitViews /\ [][NextViews]_vars

----------------------------------------------------------------------------
(* Requests answered concurrently.  A request first loads the row instances  *)
(* it works on (change_view: ModeratedObject.objects.get; a bulk action: the *)
(* queryset its loop iterates), then applies its operation to one instance   *)
(* at a time; each approve / reject sets the fields on the instance and      *)
(* saves it, one write of the row.  Other requests run in between.           *)

InitConcurrent ==
    /\ registry = [t \in ContentTypes |-> Policy(FALSE, {})]
    /\ live = [pk \in Objects |-> StoredObject]
    /\ rows = [pk \in Objects |-> NewRow(MODERATION_READY_STATE, EditedObject)]
    /\ clock = 0
    /\ request = [view |-> "none"]
    /\ response = NoResponse
    /\ messages = <<>>
    /\ pc = Idle
    /\ loaded = NothingLoaded
    /\ journal = <<>>

Actor(r) == IF r % 2 = 1 THEN "alice" ELSE "bob"

Instances(qs) == [i \in 1..Len(qs) |-> [pk |-> qs[i], instance |-> rows[qs[i]]]]

\* change_view up to the POST branch, for a valid form that asks for a transition.
LoadChangeView(r) ==
    \E object_id \in Objects, op \in {"approve", "reject"}, reason \in Reasons :
        /\ pc[r] = "idle"
        /\ rows[object_id].exists
        /\ get_moderator(registry, ContentType(object_id)).error = None
        /\ loaded' = [loaded EXCEPT ![r] =
                        [view |-> "change_view", op |-> op, user |-> Actor(r),
                         reason |-> reason, todo |-> Instances(<<object_id>>)]]
        /\ pc' = [pc EXCEPT ![r] = "loaded"]
        /\ UNCHANGED <<registry, live, rows, clock, request, response, messages, journal>>

\* approve_objects / reject_objects: the loop's queryset is evaluated.
LoadBulk(r) ==
    \E op \in {"approve", "reject"}, qs \in Selections(rows) :
        /\ pc[r] = "idle"
        /\ loaded' = [loaded EXCEPT ![r] =
                        [view |-> "bulk", op |-> op, user |-> Actor(r),
                         reason |-> "", todo |-> Instances(qs)]]
        /\ pc' = [pc EXCEPT ![r] = "loaded"]
        /\ UNCHANGED <<registry, live, rows, clock, request, response, messages, journal>>

\* The next approve / reject of request r, on the instance it loaded.
Transition(r) ==
    LET job == loaded[r]
        obj == Head(job.todo)
    IN IF job.view = "change_view"
       THEN IF job.op = "approve"
            THEN approve_branch(rows, clock, job.user, obj.pk, obj.instance,
                                job.reason, TRUE)
            ELSE LET done == reject_branch(rows, clock, job.user, obj.pk,
                                           obj.instance, job.reason,
                                           [kind |-> "change_page"])
                 IN [rows |-> done.rows, clock |-> done.clock,
                     error |-> IF done.response.kind = "error"
                               THEN done.response.error ELSE None]
       ELSE IF job.op = "approve"
            THEN approve_one(rows, clock, job.user, obj.pk, obj.instance)
            ELSE reject_one(rows, clock, job.user, obj.pk, obj.instance)

Failed(result) == "error" \in DOMAIN result /\ result.error # None

Apply(r) ==
    /\ pc[r] = "loaded"
    /\ LET result == Transition(r)
           pk == Head(loaded[r].todo).pk
           rest == IF Failed(result) THEN <<>> ELSE Tail(loaded[r].todo)
       IN /\ rows' = result.rows
          /\ clock' = result.clock
          /\ journal' = IF result.clock > clock
                        THEN Append(journal, <<pk, result.rows[pk].moderation_status,
                                               result.rows[pk].moderated_by>>)
                        ELSE journal
          /\ loaded' = [loaded EXCEPT ![r].todo = rest]
          /\ pc' = [pc EXCEPT ![r] = IF Failed(result) THEN "failed"
                                     ELSE IF rest = <<>> THEN "done" ELSE "loaded"]
    /\ UNCHANGED <<registry, live, request, response, messages>>

NextConcurrent ==
    \E r \in Requests : LoadChangeView(r) \/ LoadBulk(r) \/ Apply(r)

ConcurrentSpec == InitConcurrent /\ [][NextConcurrent]_vars

Next ==
    \/ ApproveObjects
    \/ RejectObjects
    \/ SetObjectsAsPending
    \/ ChangeView

Spec == Init /\ [][Next]_vars

----------------------------------------------------------------------------
(* What the last request asked for, read from the request alone. *)

Range(seq) == {seq[i] : i \in 1..Len(seq)}

IsChangeView == request.view = "change_view"

\* change_view found the row and its policy, and so came to the POST branch.
Served ==
    /\ IsChangeView
    /\ rows[request.object_id].exists
    /\ registry[ContentType(request.object_id)].registered

Submitted == Served /\ ~request.POST.empty /\ request.is_valid

AsksApprove == Submitted /\ "approve" \in request.POST.keys

AsksReject ==
    Submitted /\ "reject" \in request.POST.keys /\ "approve" \notin request.POST.keys

AsksRejectWith(reasons) == AsksReject /\ request.POST.moderation_reason \in reasons

IsBulk(name) == request.view = name

Target == rows[request.object_id]

Decision(row) ==
    IF row.exists
    THEN <<row.moderation_status, row.moderated_by, row.moderation_reason>>
    ELSE <<>>

----------------------------------------------------------------------------
(* C1.  A reject with an empty reason fails with ValidationError and leaves  *)
(* every row as it was, from the bulk action reject_objects (which passes no *)
(* reason) and from the reject branch of change_view alike; so a Rejected    *)
(* row always has a non-empty reason.  A reject with a non-empty reason r    *)
(* succeeds and leaves the row Rejected with reason r.                       *)

RejectedHasReason ==
    \A pk \in Objects :
        rows[pk].exists /\ rows[pk].moderation_status = MODERATION_STATUS_REJECTED
            => rows[pk].moderation_reason # ""

EmptyRejectFails ==
    /\ IsBulk("reject_objects") => response = Raised(ValidationError) /\ messages = <<>>
    /\ AsksRejectWith({""}) => response = Raised(ValidationError) /\ messages = <<>>

ReasonedRejectSucceeds ==
    AsksRejectWith(Reasons \ {""}) =>
        /\ response.kind # "error"
        /\ Target.moderation_status = MODERATION_STATUS_REJECTED
        /\ Target.moderation_reason = request.POST.moderation_reason

EmptyRejectChangesNothing ==
    (IsBulk("reject_objects") \/ AsksRejectWith({""}))' => rows' = rows /\ clock' = clock

\* C1: an empty-reason reject fails and changes nothing; a Rejected row has a
\* reason; a reject with a reason succeeds and sets it.
C1_RejectNeedsReason ==
    /\ [](RejectedHasReason /\ EmptyRejectFails /\ ReasonedRejectSucceeds)
    /\ [][EmptyRejectChangesNothing]_vars

\* An empty-reason reject from the form has just failed on a row that an
\* earlier reject, with a reason, had rejected.
C1_Witness ==
    /\ AsksRejectWith({""})
    /\ response = Raised(ValidationError)
    /\ Target.moderation_status = MODERATION_STATUS_REJECTED
    /\ Target.moderation_reason = "bad"

----------------------------------------------------------------------------
(* C2.  Last transition wins: after a successful approve or reject issued    *)
(* through the admin, the row's status, moderator and reason are those of    *)
(* that operation, whatever the row held before (in particular approve by    *)
(* one actor, then reject by another with reason "bad"); and no request      *)
(* changes the decision of a row it does not target.                         *)

ApproveWins ==
    /\ AsksApprove =>
        Decision(Target) = <<MODERATION_STATUS_APPROVED, request.user,
                             request.POST.moderation_reason>>
    /\ IsBulk("approve_objects") =>
        \A pk \in Range(request.queryset) :
            Decision(rows[pk]) = <<MODERATION_STATUS_APPROVED, request.user, "">>

RejectWins ==
    AsksRejectWith(Reasons \ {""}) =>
        Decision(Target) = <<MODERATION_STATUS_REJECTED, request.user,
                             request.POST.moderation_reason>>

OnlyTheTargetChanges ==
    \A pk \in Objects :
        Decision(rows'[pk]) # Decision(rows[pk]) =>
            \/ (AsksApprove \/ AsksReject)' /\ request'.object_id = pk
            \/ /\ (IsBulk("approve_objects") \/ IsBulk("set_objects_as_pending"))'
               /\ pk \in Range(request'.queryset)

\* C2: the row holds the status, moderator and reason of the last successful
\* approve / reject that targeted it.
C2_LastTransitionWins ==
    /\ [](ApproveWins /\ RejectWins)
    /\ [][OnlyTheTargetChanges]_vars

\* bob's reject with reason "bad" is the second decision of its row, which
\* held an earlier decision until then (the other row was never decided).
C2_Witness ==
    /\ AsksRejectWith({"bad"})
    /\ request.user = "bob"
    /\ Target.moderation_date = <<2>>
    /\ \A pk \in Objects \ {request.object_id} :
           rows[pk].exists => rows[pk].moderated_by = None

----------------------------------------------------------------------------
(* C4.  The moderators' listing holds a row iff its status is not Approved   *)
(* and its state is not Draft: a draft is never listed, whatever its status; *)
(* an approved row has left the listing; a row rejected or set pending is    *)
(* listed unless it is a draft.                                              *)

Listed(pk) == pk \in queryset(rows)

\* C4: listed iff not Approved and not Draft.
C4_Listing ==
    /\ \A pk \in Objects :
           Listed(pk) <=> /\ rows[pk].exists
                          /\ rows[pk].moderation_status # MODERATION_STATUS_APPROVED
                          /\ rows[pk].moderation_state # MODERATION_DRAFT_STATE
    /\ AsksApprove => ~Listed(request.object_id)
    /\ IsBulk("approve_objects") => \A pk \in Range(request.queryset) : ~Listed(pk)
    /\ AsksRejectWith(Reasons \ {""}) =>
           (Listed(request.object_id)
               <=> Target.moderation_state # MODERATION_DRAFT_STATE)
    /\ IsBulk("set_objects_as_pending") =>
           \A pk \in Range(request.queryset) :
               Listed(pk) <=> rows[pk].moderation_state # MODERATION_DRAFT_STATE

\* A draft has just been rejected, and is not listed; the other row, approved
\* before, is not listed either.
C4_Witness ==
    /\ AsksRejectWith({"bad"})
    /\ Target.moderation_state = MODERATION_DRAFT_STATE
    /\ Target.moderation_status = MODERATION_STATUS_REJECTED
    /\ ~Listed(request.object_id)
    /\ \E pk \in Objects :
           /\ rows[pk].exists
           /\ rows[pk].moderation_status = MODERATION_STATUS_APPROVED
           /\ ~Listed(pk)

----------------------------------------------------------------------------
(* C7.  set_objects_as_pending is accepted whatever the rows' states and     *)
(* leaves every selected row Pending with its decision date cleared.         *)

\* C7: after set_objects_as_pending every selected row is Pending, undated.
C7_SetPendingClearsDate ==
    IsBulk("set_objects_as_pending") =>
        /\ response.kind # "error"
        /\ \A pk \in Range(request.queryset) :
               /\ rows[pk].moderation_status = MODERATION_STATUS_PENDING
               /\ rows[pk].moderation_date = NoDate

\* Two rows set pending at once after both had been decided, one of them
\* with a reason.
C7_Witness ==
    /\ IsBulk("set_objects_as_pending")
    /\ Len(request.queryset) = 2
    /\ \A pk \in Range(request.queryset) : rows[pk].moderated_by # None
    /\ \E pk \in Range(request.queryset) : rows[pk].moderation_reason # ""

----------------------------------------------------------------------------
(* C8.  Every bulk action applies its operation to each selected row and     *)
(* adds one message per row: n messages for n rows.                          *)

BulkStatus(name) ==
    IF name = "approve_objects" THEN MODERATION_STATUS_APPROVED
    ELSE IF name = "reject_objects" THEN MODERATION_STATUS_REJECTED
    ELSE MODERATION_STATUS_PENDING

\* C8: after a bulk action on n rows, n messages, every row transitioned.
C8_OneMessagePerRow ==
    request.view \in {"approve_objects", "reject_objects", "set_objects_as_pending"} =>
        /\ Len(messages) = Len(request.queryset)
        /\ \A pk \in Range(request.queryset) :
               rows[pk].moderation_status = BulkStatus(request.view)

----------------------------------------------------------------------------
(* C10.  One change_view request applies at most one transition, to its own  *)
(* row: approve when the valid form carries 'approve' (also beside           *)
(* 'reject'); reject when it carries 'reject' without 'approve' and the      *)
(* state machine accepts the reason; none otherwise (no POST data, an        *)
(* invalid form, neither button, a refused reject), and then no field of any *)
(* row changes.  The request ends in a redirect exactly when it approved; an *)
(* applied reject, like a request that applies nothing, goes on to the       *)
(* change page.                                                              *)

HowChangeViewEnds ==
    /\ IsChangeView => (response.kind = "redirect" <=> AsksApprove)
    /\ AsksRejectWith(Reasons \ {""}) => response.kind = "change_page"
    /\ AsksRejectWith({""}) => response = Raised(ValidationError)
    /\ Served /\ ~AsksApprove /\ ~AsksReject =>
           response.kind = "change_page" /\ messages = <<>>
    /\ AsksApprove \/ AsksRejectWith(Reasons \ {""}) => Len(messages) = 1

AtMostOneTransition ==
    IsChangeView' =>
        /\ \A pk \in Objects \ {request'.object_id} : rows'[pk] = rows[pk]
        /\ IF AsksApprove'
           THEN /\ Target'.moderation_status = MODERATION_STATUS_APPROVED
                /\ clock' = clock + 1
           ELSE IF AsksRejectWith(Reasons \ {""})'
           THEN /\ Target'.moderation_status = MODERATION_STATUS_REJECTED
                /\ clock' = clock + 1
           ELSE rows' = rows /\ clock' = clock

----------------------------------------------------------------------------
(* C5.  get_moderation_message gives, for each (status, reason, flag), the   *)
(* text of its case; send_message delivers the 'not registered' text when    *)
(* the object has no moderation record, and otherwise the text for the       *)
(* record's status.                                                          *)

MessageTable ==
    \A r \in Reasons, v \in BOOLEAN :
        /\ get_moderation_message(MODERATION_STATUS_PENDING, r, TRUE) = MsgPendingVisible
        /\ get_moderation_message(MODERATION_STATUS_PENDING, r, FALSE) = MsgPendingHidden
        /\ get_moderation_message(MODERATION_STATUS_REJECTED, r, v) = MsgRejected \o r
        /\ get_moderation_message(MODERATION_STATUS_APPROVED, r, v) = MsgApproved
        /\ get_moderation_message(None, r, v) = MsgNotRegistered

MessageSent == request.view = "ModerationAdmin.change_view"
               /\ request.admin_integration_enabled

\* The flag the message may have been built with: the policy's, when there is one.
FlagsOf(pk) ==
    IF registry[ContentType(pk)].registered
    THEN {registry[ContentType(pk)].visible_until_rejected}
    ELSE BOOLEAN

----------------------------------------------------------------------------
(* C6.  A missing policy or a missing moderation record is never fatal:      *)
(* send_message and ModeratedObjectAdmin.change_view then end in a normal    *)
(* response that carries the 'not registered' message.                       *)

NotModerated(pk) == ~rows[pk].exists \/ ~registry[ContentType(pk)].registered

\* C6: no record or no policy ends in the 'not registered' message, not in an
\* error.
C6_NeverFatal ==
    (MessageSent \/ IsChangeView) /\ NotModerated(request.object_id) =>
        /\ response.kind # "error"
        /\ messages = <<MsgNotRegistered>>

----------------------------------------------------------------------------
(* C9.  The change-set shown by change_view holds no excluded field, holds a *)
(* field that is not excluded iff its two values differ, each with its (old, *)
(* new) pair and once, in declared order; writing the new values over the    *)
(* old side gives the new side on every field not excluded.  The old side is *)
(* the changed object and the new side the stored one under a                *)
(* visible-until-rejected policy, and the other way round otherwise.         *)

Overwrite(old, changes) ==
    [f \in FieldNames |->
        IF \E i \in 1..Len(changes) : changes[i].field = f
        THEN (CHOOSE c \in Range(changes) : c.field = f).change[2]
        ELSE old[f]]

Position(f) == CHOOSE i \in 1..Len(FieldOrder) : FieldOrder[i] = f

----------------------------------------------------------------------------
(* C3.  Whatever the interleaving of concurrent approve / reject requests,   *)
(* each row's (status, moderator, date) is what one single transition wrote: *)
(* a row with no date is as created, Pending with no moderator; a row dated  *)
(* t holds the status and the moderator that the transition of date t wrote  *)
(* to that row; moderator and date are both absent or both present.          *)

\* C3: under any interleaving, (status, moderator, date) of a row is what one
\* transition wrote.
C3_AuditTripleConsistent ==
    \A pk \in Objects :
        rows[pk].exists =>
            /\ rows[pk].moderated_by = None <=> rows[pk].moderation_date = NoDate
            /\ rows[pk].moderation_date = NoDate =>
                   rows[pk].moderation_status = MODERATION_STATUS_PENDING
            /\ rows[pk].moderation_date # NoDate =>
                   LET t == rows[pk].moderation_date[1]
                   IN /\ t \in 1..Len(journal)
                      /\ journal[t] = <<pk, rows[pk].moderation_status,
                                        rows[pk].moderated_by>>

\* Two change_view requests by different actors on the same row: bob's
\* approved it, then alice's rejected it, and both have ended.
C3_Witness ==
    \E pk \in Objects :
        /\ Len(journal) = 2
        /\ journal[1] = <<pk, MODERATION_STATUS_APPROVED, "bob">>
        /\ journal[2] = <<pk, MODERATION_STATUS_REJECTED, "alice">>
        /\ pc = [r \in Requests |-> "done"]
        /\ rows[pk].moderation_date = <<2>>
        /\ \A r \in Requests : loaded[r].view = "change_view"

====
